---- MODULE Spec2Model ----
(***************************************************************************)
(* Dispatch layer of csrc/ops.cu: every host routine computes a partition, *)
(* optionally zeroes accumulators with cudaMemset, launches one or two     *)
(* kernels on the default stream and checks for failure with the           *)
(* CUDA_CHECK_RETURN macro.  The host side of every routine is written as  *)
(* the list of its statements; the device executes the operations of the   *)
(* default stream in issue order.                                          *)
(***************************************************************************)
EXTENDS Integers, Sequences, FiniteSets, TLC

VARIABLES call, pc, blocks, status, lastError, exitCode, stderr,
          issued, stream, executed, unchecked, failedAt, envFault,
          mem, entry

vars == << call, pc, blocks, status, lastError, exitCode, stderr,
           issued, stream, executed, unchecked, failedAt, envFault,
           mem, entry >>

hostVars == << pc, blocks, status, lastError, exitCode, stderr,
               issued, unchecked, failedAt, envFault >>

----------------------------------------------------------------------------
(* Bounds of the model *)

\* n ranges over 0, 1 and the neighbours of the first MaxGroups multiples of E
MaxGroups == 2
\* number of percentileClipping calls in the step sequence 0, 1, 2, ...
MaxSteps == 200
\* percentileClipping is tried with every step in -MaxAbsStep..MaxAbsStep
MaxAbsStep == 2
\* the accumulators start with a value in 0..MaxGarbage
MaxGarbage == 1
\* the input data of the blockwise round trip is generated from 0..MaxSeed
MaxSeed == 1

(* Program constants *)

\* gnorm_vec has 100 entries, indexed by step % 100
HistorySize == 100

----------------------------------------------------------------------------
(* C++ integer arithmetic: / and % truncate towards zero *)

Abs(x) == IF x < 0 THEN -x ELSE x

CDiv(a, b) == IF (a >= 0) = (b > 0) THEN Abs(a) \div Abs(b) ELSE -(Abs(a) \div Abs(b))

CRem(a, b) == a - b * CDiv(a, b)

\* a partition that forgets the ragged last work-group
Mut_NumBlocks_Floor(n, E) == CDiv(n, E)

\* int blocks = n/E; blocks = n % E == 0 ? blocks : blocks + 1;
NumBlocks(n, E) == IF CRem(n, E) = 0 THEN CDiv(n, E) ELSE CDiv(n, E) + 1

----------------------------------------------------------------------------
(* Optimizer kinds.  OTHER stands for a template argument outside the enum *)

Optimizers == {"ADAM", "MOMENTUM", "RMSPROP", "ADAGRAD", "OTHER"}

OneState == {"MOMENTUM", "RMSPROP", "ADAGRAD"}

Routines == {"histogramScatterAdd2D", "estimateQuantiles", "quantize", "dequantize",
             "quantizeBlockwise", "dequantizeBlockwise", "optimizer32bit",
             "optimizerStatic8bit", "optimizerStatic8bitBlockwise",
             "percentileClipping"}

----------------------------------------------------------------------------
(* The statements of a routine *)

\* int blocks = n/E; blocks = n % E == 0 ? blocks : blocks + 1;
Part(E) == [k |-> "part", name |-> "blocks", arg |-> E, threads |-> 0, per |-> 0]

\* CUDA_CHECK_RETURN(cudaMemset(&target[idx], 0, ...));
Memset(target, idx) == [k |-> "memset", name |-> target, arg |-> idx, threads |-> 0, per |-> 0]

\* kernel<..., E, per><<<blocks, threads>>>(...); per = 0 when the launch names
\* no elements per thread
Launch(kernel, E, threads, per) ==
    [k |-> "launch", name |-> kernel, arg |-> E, threads |-> threads, per |-> per]

\* CUDA_CHECK_RETURN(cudaPeekAtLastError());
Peek == [k |-> "peek", name |-> "cudaPeekAtLastError", arg |-> 0, threads |-> 0, per |-> 0]

Prog_histogramScatterAdd2D(c) ==
    << Part(512), Launch("kHistogramScatterAdd2D", 512, 512, 0), Peek >>

Prog_estimateQuantiles(c) ==
    << Part(4096), Memset("code", 0), Launch("kEstimateQuantiles", 4096, 512, 0), Peek >>

Prog_quantize(c) ==
    << Part(1024), Launch("kQuantize", 1024, 1024, 0), Peek >>

Prog_dequantize(c) ==
    << Part(1024), Launch("kDequantize", 1024, 1024, 0), Peek >>

Prog_quantizeBlockwise(c) ==
    << Part(4096), Launch("kQuantizeBlockwise", 4096, 1024, 4), Peek >>

\* a dispatch that picks the kernel of the other block size
Mut_dequantizeBlockwise_Swapped(c) ==
    << Part(c.blocksize) >>
    \o (IF c.blocksize = 4096
          THEN << Launch("kDequantizeBlockwise", 2048, 2048 \div 4, 4) >>
          ELSE IF c.blocksize = 2048
                 THEN << Launch("kDequantizeBlockwise", 4096, 4096 \div 4, 4) >>
                 ELSE << >>)
    \o << Peek >>

Prog_dequantizeBlockwise(c) ==
    << Part(c.blocksize) >>
    \o (IF c.blocksize = 4096
          THEN << Launch("kDequantizeBlockwise", 4096, 4096 \div 4, 4) >>
          ELSE IF c.blocksize = 2048
                 THEN << Launch("kDequantizeBlockwise", 2048, 2048 \div 4, 4) >>
                 ELSE << >>)
    \o << Peek >>

\* a dispatch that launches the update before the precondition pass
Mut_optimizer32bit_UpdateFirst(c) ==
    << Part(4096) >>
    \o (IF c.OPTIMIZER \in {"ADAM"} \cup OneState
          THEN LET f == IF c.OPTIMIZER = "ADAM" THEN "2State" ELSE "1State" IN
               << Launch("kOptimizer32bit" \o f, 4096, 1024, 0), Peek >>
               \o (IF c.max_unorm > 0
                      THEN << Memset("unorm", 0),
                              Launch("kPreconditionOptimizer32bit" \o f, 4096, 512, 8),
                              Peek >>
                      ELSE << >>)
          ELSE << >>)

Prog_optimizer32bit(c) ==
    << Part(4096) >>
    \o (IF c.OPTIMIZER = "ADAM"
          THEN (IF c.max_unorm > 0
                  THEN << Memset("unorm", 0),
                          Launch("kPreconditionOptimizer32bit2State", 4096, 512, 8),
                          Peek >>
                  ELSE << >>)
               \o << Launch("kOptimizer32bit2State", 4096, 1024, 0), Peek >>
          ELSE IF c.OPTIMIZER \in OneState
                 THEN (IF c.max_unorm > 0
                         THEN << Memset("unorm", 0),
                                 Launch("kPreconditionOptimizer32bit1State", 4096, 512, 8),
                                 Peek >>
                         ELSE << >>)
                      \o << Launch("kOptimizer32bit1State", 4096, 1024, 0), Peek >>
                 ELSE << >>)

\* a dispatch that does not zero new_max1 before the precondition pass
Mut_optimizerStatic8bit_NoZero(c) ==
    << Part(4096) >>
    \o (IF c.max_unorm > 0 THEN << Memset("unorm", 0) >> ELSE << >>)
    \o (IF c.OPTIMIZER = "ADAM"
          THEN << Memset("new_max2", 0),
                  Launch("kPreconditionOptimizerStatic8bit2State", 4096, 256, 0), Peek,
                  Launch("kOptimizerStatic8bit2State", 4096, 1024, 0), Peek >>
          ELSE IF c.OPTIMIZER \in OneState
                 THEN << Launch("kPreconditionOptimizerStatic8bit1State", 4096, 256, 0), Peek,
                         Launch("kOptimizerStatic8bit1State", 4096, 1024, 0), Peek >>
                 ELSE << >>)

\* a dispatch that does not check the precondition launch before the update
Mut_optimizerStatic8bit_NoCheck(c) ==
    << Part(4096) >>
    \o (IF c.max_unorm > 0 THEN << Memset("unorm", 0) >> ELSE << >>)
    \o (IF c.OPTIMIZER = "ADAM"
          THEN << Memset("new_max1", 0), Memset("new_max2", 0),
                  Launch("kPreconditionOptimizerStatic8bit2State", 4096, 256, 0),
                  Launch("kOptimizerStatic8bit2State", 4096, 1024, 0), Peek >>
          ELSE IF c.OPTIMIZER \in OneState
                 THEN << Memset("new_max1", 0),
                         Launch("kPreconditionOptimizerStatic8bit1State", 4096, 256, 0),
                         Launch("kOptimizerStatic8bit1State", 4096, 1024, 0), Peek >>
                 ELSE << >>)

\* a dispatch whose 1-state branch leaves ADAGRAD to the default branch
Mut_optimizerStatic8bit_NoAdagrad(c) ==
    << Part(4096) >>
    \o (IF c.max_unorm > 0 THEN << Memset("unorm", 0) >> ELSE << >>)
    \o (IF c.OPTIMIZER = "ADAM"
          THEN << Memset("new_max1", 0), Memset("new_max2", 0),
                  Launch("kPreconditionOptimizerStatic8bit2State", 4096, 256, 0), Peek,
                  Launch("kOptimizerStatic8bit2State", 4096, 1024, 0), Peek >>
          ELSE IF c.OPTIMIZER \in {"MOMENTUM", "RMSPROP"}
                 THEN << Memset("new_max1", 0),
                         Launch("kPreconditionOptimizerStatic8bit1State", 4096, 256, 0), Peek,
                         Launch("kOptimizerStatic8bit1State", 4096, 1024, 0), Peek >>
                 ELSE << >>)

Prog_optimizerStatic8bit(c) ==
    << Part(4096) >>
    \o (IF c.max_unorm > 0 THEN << Memset("unorm", 0) >> ELSE << >>)
    \o (IF c.OPTIMIZER = "ADAM"
          THEN << Memset("new_max1", 0), Memset("new_max2", 0),
                  Launch("kPreconditionOptimizerStatic8bit2State", 4096, 256, 0), Peek,
                  Launch("kOptimizerStatic8bit2State", 4096, 1024, 0), Peek >>
          ELSE IF c.OPTIMIZER \in OneState
                 THEN << Memset("new_max1", 0),
                         Launch("kPreconditionOptimizerStatic8bit1State", 4096, 256, 0), Peek,
                         Launch("kOptimizerStatic8bit1State", 4096, 1024, 0), Peek >>
                 ELSE << >>)

Prog_optimizerStatic8bitBlockwise(c) ==
    IF c.OPTIMIZER = "ADAM"
      THEN << Part(2048),
              Launch("kOptimizerStatic8bit2StateBlockwise", 2048, 2048 \div 8, 8), Peek >>
      ELSE IF c.OPTIMIZER \in OneState
             THEN << Part(2048),
                     Launch("kOptimizerStatic8bit1StateBlockwise", 2048, 2048 \div 8, 8),
                     Peek >>
             ELSE << >>

\* a dispatch that does not zero the slot before the kernel adds to it
Mut_percentileClipping_NoZero(c) ==
    << Part(2048), Launch("kPercentileClipping", 2048, 512, 4), Peek >>

Prog_percentileClipping(c) ==
    << Part(2048), Memset("gnorm_vec", CRem(c.step, HistorySize)),
       Launch("kPercentileClipping", 2048, 512, 4), Peek >>

Program(c) ==
    CASE c.routine = "histogramScatterAdd2D" -> Prog_histogramScatterAdd2D(c)
      [] c.routine = "estimateQuantiles" -> Prog_estimateQuantiles(c)
      [] c.routine = "quantize" -> Prog_quantize(c)
      [] c.routine = "dequantize" -> Prog_dequantize(c)
      [] c.routine = "quantizeBlockwise" -> Prog_quantizeBlockwise(c)
      [] c.routine = "dequantizeBlockwise" -> Prog_dequantizeBlockwise(c)
      [] c.routine = "optimizer32bit" -> Prog_optimizer32bit(c)
      [] c.routine = "optimizerStatic8bit" -> Prog_optimizerStatic8bit(c)
      [] c.routine = "optimizerStatic8bitBlockwise" -> Prog_optimizerStatic8bitBlockwise(c)
      [] c.routine = "percentileClipping" -> Prog_percentileClipping(c)

----------------------------------------------------------------------------
(* Inputs *)

Success == "cudaSuccess"

\* 0, 1 and the neighbours of the first MaxGroups multiples of E
NValues(E) == {0, 1} \cup {g * E + d : g \in 1..MaxGroups, d \in {-1, 0, 1}}

\* what the caller's buffers may hold before the call
GarbageValues == {10 * g : g \in 0..MaxGarbage}

BlocksizeValues == {-2048, 0, 1024, 2048, 4096, 8192}

Supported == {2048, 4096}

StepValues == (-MaxAbsStep..MaxAbsStep) \cup {150}

MaxUnormValues == {-1, 0, 1}

Call(r, o, mu, n, bs, st, sd) ==
    [routine |-> r, OPTIMIZER |-> o, max_unorm |-> mu, n |-> n, blocksize |-> bs,
     step |-> st, seed |-> sd]

Calls ==
    {Call(r, "ADAM", 0, n, 4096, 0, 0) :
        r \in {"estimateQuantiles", "quantizeBlockwise"}, n \in NValues(4096)}
    \cup {Call(r, "ADAM", 0, n, 4096, 0, 0) :
        r \in {"quantize", "dequantize"}, n \in NValues(1024)}
    \cup {Call("histogramScatterAdd2D", "ADAM", 0, n, 4096, 0, 0) : n \in NValues(512)}
    \cup {Call("dequantizeBlockwise", "ADAM", 0, n, bs, 0, 0) :
        n \in NValues(4096) \cup NValues(2048), bs \in BlocksizeValues}
    \cup {Call(r, o, mu, n, 4096, 1, 0) :
        r \in {"optimizer32bit", "optimizerStatic8bit"}, o \in Optimizers,
        mu \in MaxUnormValues, n \in NValues(4096)}
    \cup {Call("optimizerStatic8bitBlockwise", o, 0, n, 4096, 1, 0) :
        o \in Optimizers, n \in NValues(2048)}
    \cup {Call("percentileClipping", "ADAM", 0, n, 4096, st, 0) :
        st \in StepValues, n \in NValues(2048)}

----------------------------------------------------------------------------
(* Device memory and the kernels *)

Max(a, b) == IF a >= b THEN a ELSE b

SetMax(S) == CHOOSE x \in S : \A y \in S : y <= x

\* the input buffer A of the blockwise quantizer: the magnitude grows with
\* every 2048 elements, so that blocks are told apart by their absmax
A(i, seed) == (1 + i \div 2048) * (((i * 7 + seed) % 11) - 5)

\* norm of the gradient buffer g at the given step
GNorm(step, seed) == seed + step + 1001

\* index of the absmax entry the quantizer's work-group of element i writes and
\* scales with: kQuantizeBlockwise<T, 4096, 4, STOCHASTIC>, absmax[blockIdx.x]
QuantAbsmaxIndex(i) == i \div 4096

\* index of the absmax entry kDequantizeBlockwise<T, BLOCK_SIZE, ...> scales
\* element i with: absmax[blockIdx.x]
DequantAbsmaxIndex(i, BLOCK_SIZE) == i \div BLOCK_SIZE

\* nearest of the 255 levels -127..127 for a / m
Code(a, m) ==
    IF m = 0 THEN 0
    ELSE (IF a < 0 THEN -1 ELSE 1) * ((2 * 127 * Abs(a) + m) \div (2 * m))

BlockAbsmax(b, E, n, seed) ==
    SetMax({Abs(A(i, seed)) : i \in (b * E)..(IF (b + 1) * E < n THEN (b + 1) * E ELSE n) - 1})

InitMem(c, g) ==
    [unorm |-> g, new_max1 |-> g, new_max2 |-> g, code |-> "garbage",
     gnorm_vec |-> [k \in 0..(HistorySize - 1) |-> g], oob |-> {},
     absmax |-> [b \in 0..NumBlocks(c.n, 2048) |-> g],
     out |-> IF c.routine \in {"quantizeBlockwise", "dequantizeBlockwise"}
               THEN [i \in 0..(c.n - 1) |-> 0] ELSE << >>,
     deq |-> IF c.routine \in {"quantizeBlockwise", "dequantizeBlockwise"}
               THEN [i \in 0..(c.n - 1) |-> g] ELSE << >>,
     touched |-> {}]

Snapshot(m) == [unorm |-> m.unorm, new_max1 |-> m.new_max1, new_max2 |-> m.new_max2]

\* cudaMemset(&target[idx], 0, ...)
MemsetEffect(m, op) ==
    CASE op.name = "unorm" -> [m EXCEPT !.unorm = 0, !.touched = @ \cup {"unorm"}]
      [] op.name = "new_max1" -> [m EXCEPT !.new_max1 = 0, !.touched = @ \cup {"new_max1"}]
      [] op.name = "new_max2" -> [m EXCEPT !.new_max2 = 0, !.touched = @ \cup {"new_max2"}]
      [] op.name = "code" -> [m EXCEPT !.code = "zero", !.touched = @ \cup {"code"}]
      [] op.name = "gnorm_vec" ->
           IF op.arg \in 0..(HistorySize - 1)
             THEN [m EXCEPT !.gnorm_vec[op.arg] = 0, !.touched = @ \cup {"gnorm_vec"}]
             ELSE [m EXCEPT !.oob = @ \cup {op.arg}]

\* what a kernel does to the buffers, all its work-groups taken together
KernelEffect(m, op, c) ==
    CASE op.name \in {"kPreconditionOptimizer32bit2State",
                      "kPreconditionOptimizer32bit1State"} ->
           [m EXCEPT !.unorm = @ + op.blocks, !.touched = @ \cup {"unorm"}]
      [] op.name = "kOptimizer32bit2State" ->
           [m EXCEPT !.touched = @ \cup {"p", "state1", "state2"}]
      [] op.name = "kOptimizer32bit1State" ->
           [m EXCEPT !.touched = @ \cup {"p", "state1"}]
      [] op.name = "kPreconditionOptimizerStatic8bit2State" ->
           [m EXCEPT !.new_max1 = Max(@, 2), !.new_max2 = Max(@, 3),
                     !.unorm = @ + op.blocks,
                     !.touched = @ \cup {"new_max1", "new_max2", "unorm"}]
      [] op.name = "kPreconditionOptimizerStatic8bit1State" ->
           [m EXCEPT !.new_max1 = Max(@, 2), !.unorm = @ + op.blocks,
                     !.touched = @ \cup {"new_max1", "unorm"}]
      [] op.name = "kOptimizerStatic8bit2State" ->
           [m EXCEPT !.touched = @ \cup {"p", "state1", "state2"}]
      [] op.name = "kOptimizerStatic8bit1State" ->
           [m EXCEPT !.touched = @ \cup {"p", "state1"}]
      [] op.name = "kOptimizerStatic8bit2StateBlockwise" ->
           [m EXCEPT !.touched = @ \cup {"p", "state1", "state2", "absmax1", "absmax2"}]
      [] op.name = "kOptimizerStatic8bit1StateBlockwise" ->
           [m EXCEPT !.touched = @ \cup {"p", "state1", "absmax1"}]
      [] op.name = "kPercentileClipping" ->
           LET slot == CRem(c.step, HistorySize) IN
           IF slot \in 0..(HistorySize - 1)
             THEN [m EXCEPT !.gnorm_vec[slot] = @ + GNorm(c.step, c.seed),
                            !.touched = @ \cup {"gnorm_vec"}]
             ELSE [m EXCEPT !.oob = @ \cup {slot}]
      [] op.name = "kEstimateQuantiles" ->
           [m EXCEPT !.code = "quantiles", !.touched = @ \cup {"code"}]
      [] op.name = "kQuantizeBlockwise" ->
           LET am == [b \in DOMAIN m.absmax |->
                        IF b < op.blocks THEN BlockAbsmax(b, op.arg, c.n, c.seed)
                        ELSE m.absmax[b]]
           IN [m EXCEPT !.absmax = am,
                        !.out = [i \in 0..(c.n - 1) |->
                                   IF i < op.blocks * op.arg
                                     THEN Code(A(i, c.seed), am[QuantAbsmaxIndex(i)])
                                     ELSE m.out[i]],
                        !.touched = @ \cup {"absmax", "out"}]
      [] op.name = "kDequantizeBlockwise" ->
           [m EXCEPT !.deq = [i \in 0..(c.n - 1) |->
                                IF i < op.blocks * op.arg
                                  THEN m.out[i] * m.absmax[DequantAbsmaxIndex(i, op.arg)]
                                  ELSE m.deq[i]],
                     !.touched = @ \cup {"out"}]
      [] OTHER -> [m EXCEPT !.touched = @ \cup {"out"}]

IsPrecondition(name) ==
    name \in {"kPreconditionOptimizer32bit2State", "kPreconditionOptimizer32bit1State",
              "kPreconditionOptimizerStatic8bit2State",
              "kPreconditionOptimizerStatic8bit1State"}

IsUpdate(name) ==
    name \in {"kOptimizer32bit2State", "kOptimizer32bit1State",
              "kOptimizerStatic8bit2State", "kOptimizerStatic8bit1State"}

----------------------------------------------------------------------------
(* The host: one call of a routine, statement by statement *)

Start(c, g) ==
    /\ call = c
    /\ pc = 1
    /\ blocks = 0
    /\ status = "running"
    /\ lastError = Success
    /\ exitCode = 0
    /\ stderr = << >>
    /\ issued = << >>
    /\ stream = << >>
    /\ executed = << >>
    /\ unchecked = 0
    /\ failedAt = 0
    /\ envFault = FALSE
    /\ mem = InitMem(c, g)
    /\ entry = [precond |-> << >>, update |-> << >>]

Init == \E c \in Calls, g \in GarbageValues : Start(c, g)

Running == status = "running" /\ pc <= Len(Program(call))

Instr == Program(call)[pc]

\* fprintf(stderr, "Error %s at line %d in file %s\n", ...); exit(1);
Exit(err) ==
    /\ stderr' = Append(stderr, << "Error", err >>)
    /\ exitCode' = 1
    /\ status' = "exited"

\* the operation handed to the device
DeviceOp(i) == [k |-> i.k, name |-> i.name, arg |-> i.arg, blocks |-> blocks]

\* int blocks = n/E; blocks = n % E == 0 ? blocks : blocks + 1;
\* with E = 0 the division is undefined: the process is killed by the trap, or
\* goes on with any value
Partition ==
    /\ Running
    /\ Instr.k = "part"
    /\ IF Instr.arg = 0
         THEN \/ /\ status' = "crashed"
                 /\ UNCHANGED << pc, blocks >>
              \/ /\ blocks' \in {0, 1}
                 /\ pc' = pc + 1
                 /\ UNCHANGED status
         ELSE /\ blocks' = NumBlocks(call.n, Instr.arg)
              /\ pc' = pc + 1
              /\ UNCHANGED status
    /\ UNCHANGED << call, lastError, exitCode, stderr, issued, stream, executed,
                    unchecked, failedAt, envFault, mem, entry >>

\* CUDA_CHECK_RETURN(cudaMemset(...)): the macro checks the value cudaMemset
\* returns before the next statement
MemsetStep ==
    /\ Running
    /\ Instr.k = "memset"
    /\ \E fault \in BOOLEAN :
         LET st == IF fault THEN "cudaErrorInvalidValue" ELSE Success IN
         /\ issued' = Append(issued, DeviceOp(Instr))
         /\ envFault' = (envFault \/ fault)
         /\ IF st = Success
              THEN /\ stream' = Append(stream, DeviceOp(Instr))
                   /\ pc' = pc + 1
                   /\ UNCHANGED << status, exitCode, stderr, lastError, failedAt >>
              ELSE /\ lastError' = st
                   /\ failedAt' = Len(issued')
                   /\ Exit(st)
                   /\ UNCHANGED << stream, pc >>
    /\ UNCHANGED << call, blocks, executed, unchecked, mem, entry >>

\* the status of kernel<<<grid, threads>>>: the runtime rejects a launch whose
\* grid has no work-group with cudaErrorInvalidConfiguration
LaunchStatus(grid, fault) ==
    IF grid <= 0 THEN "cudaErrorInvalidConfiguration"
    ELSE IF fault THEN "cudaErrorLaunchFailure"
    ELSE Success

\* kernel<<<blocks, threads>>>(...): the launch is asynchronous, its status is
\* left in the runtime's last error
LaunchStep ==
    /\ Running
    /\ Instr.k = "launch"
    /\ \E fault \in (IF blocks <= 0 THEN {FALSE} ELSE BOOLEAN) :
         LET st == LaunchStatus(blocks, fault) IN
         /\ issued' = Append(issued, DeviceOp(Instr))
         /\ envFault' = (envFault \/ fault)
         /\ unchecked' = unchecked + 1
         /\ pc' = pc + 1
         /\ IF st = Success
              THEN /\ stream' = Append(stream, DeviceOp(Instr))
                   /\ UNCHANGED << lastError, failedAt >>
              ELSE /\ lastError' = st
                   /\ failedAt' = IF failedAt = 0 THEN Len(issued') ELSE failedAt
                   /\ UNCHANGED stream
    /\ UNCHANGED << call, blocks, status, exitCode, stderr, executed, mem, entry >>

\* CUDA_CHECK_RETURN(cudaPeekAtLastError());
PeekStep ==
    /\ Running
    /\ Instr.k = "peek"
    /\ unchecked' = 0
    /\ IF lastError # Success
         THEN /\ Exit(lastError)
              /\ UNCHANGED pc
         ELSE /\ pc' = pc + 1
              /\ UNCHANGED << status, exitCode, stderr >>
    /\ UNCHANGED << call, blocks, lastError, issued, stream, executed, failedAt,
                    envFault, mem, entry >>

\* the closing brace of the routine
Return ==
    /\ status = "running"
    /\ pc > Len(Program(call))
    /\ status' = "returned"
    /\ UNCHANGED << call, pc, blocks, lastError, exitCode, stderr, issued, stream,
                    executed, unchecked, failedAt, envFault, mem, entry >>

----------------------------------------------------------------------------
(* The device: the operations of the default stream run one after the other, *)
(* in the order they were issued                                            *)

NextOp(q) == Head(q)

DeviceExec ==
    /\ status \in {"running", "returned"}
    /\ stream # << >>
    /\ LET op == NextOp(stream) IN
       /\ stream' = Tail(stream)
       /\ executed' = Append(executed, op)
       /\ mem' = IF op.k = "memset" THEN MemsetEffect(mem, op)
                 ELSE KernelEffect(mem, op, call)
       /\ entry' = IF IsPrecondition(op.name)
                     THEN [entry EXCEPT !.precond = Append(@, Snapshot(mem))]
                   ELSE IF IsUpdate(op.name)
                     THEN [entry EXCEPT !.update = Append(@, Snapshot(mem))]
                   ELSE entry
    /\ UNCHANGED << call, hostVars >>

Next == Partition \/ MemsetStep \/ LaunchStep \/ PeekStep \/ Return \/ DeviceExec

Spec == Init /\ [][Next]_vars

----------------------------------------------------------------------------
(* A caller that calls again on the same buffers, after it has waited for the *)
(* device (it reads the result back between the calls)                        *)

CallAgain(c) ==
    /\ status = "returned"
    /\ stream = << >>
    /\ call' = c
    /\ pc' = 1
    /\ blocks' = 0
    /\ status' = "running"
    /\ issued' = << >>
    /\ executed' = << >>
    /\ entry' = [precond |-> << >>, update |-> << >>]
    /\ UNCHANGED << stream, lastError, exitCode, stderr, unchecked, failedAt, envFault,
                    mem >>

\* percentileClipping for step = 0, 1, 2, ... on one gnorm_vec
NextClipCall ==
    /\ call.routine = "percentileClipping"
    /\ call.step + 1 < MaxSteps
    /\ CallAgain([call EXCEPT !.step = @ + 1])

InitClipSeq ==
    \E n \in {1, 2049}, g \in GarbageValues, sd \in 0..MaxSeed :
        Start(Call("percentileClipping", "ADAM", 0, n, 4096, 0, sd), g)

NextClipSeq ==
    Partition \/ MemsetStep \/ LaunchStep \/ PeekStep \/ Return \/ DeviceExec
    \/ NextClipCall

SpecClipSeq == InitClipSeq /\ [][NextClipSeq]_vars

\* dequantizeBlockwise on the out and absmax that quantizeBlockwise produced
DequantCall ==
    /\ call.routine = "quantizeBlockwise"
    /\ \E bs \in Supported :
         CallAgain([call EXCEPT !.routine = "dequantizeBlockwise", !.blocksize = bs])

InitRoundTrip ==
    \E n \in NValues(4096) \cup NValues(2048), g \in GarbageValues, sd \in 0..MaxSeed :
        Start(Call("quantizeBlockwise", "ADAM", 0, n, 4096, 0, sd), g)

NextRoundTrip ==
    Partition \/ LaunchStep \/ PeekStep \/ Return \/ DeviceExec \/ DequantCall

SpecRoundTrip == InitRoundTrip /\ [][NextRoundTrip]_vars

----------------------------------------------------------------------------
(* Vocabulary of the properties *)

IsPrefix(s, t) == Len(s) <= Len(t) /\ \A i \in 1..Len(s) : s[i] = t[i]

Tag(op) == << op.k, op.name >>

Tags(q) == [i \in 1..Len(q) |-> Tag(q[i])]

Kinds4 == {"ADAM", "MOMENTUM", "RMSPROP", "ADAGRAD"}

Family(o) == IF o = "ADAM" THEN "2State" ELSE "1State"

\* the call has returned and the device has run everything it was handed
Complete == status = "returned" /\ stream = << >>

\* the statement computing the partition has been executed
PartDone == \E j \in 1..Len(Program(call)) : j < pc /\ Program(call)[j].k = "part"

----------------------------------------------------------------------------
\* what optimizer32bit is to issue, in order
Expected_C1 ==
    (IF call.max_unorm > 0
       THEN << << "memset", "unorm" >>,
               << "launch", "kPreconditionOptimizer32bit" \o Family(call.OPTIMIZER) >> >>
       ELSE << >>)
    \o << << "launch", "kOptimizer32bit" \o Family(call.OPTIMIZER) >> >>

\* C1: optimizer32bit, for each of the four kinds: with max_unorm > 0 the call
\* issues the zeroing of unorm, the precondition kernel of the kind's family and
\* the update kernel, in this order, and the device starts the update only after
\* the precondition kernel has added every work-group's share to the zeroed
\* unorm; with max_unorm <= 0 it issues the update kernel alone and unorm is not
\* touched.  A call that returns has issued the update kernel exactly once.
Thm_C1 ==
    (call.routine = "optimizer32bit" /\ call.OPTIMIZER \in Kinds4) =>
        /\ IsPrefix(Tags(issued), Expected_C1)
        /\ IsPrefix(Tags(executed), Tags(issued))
        /\ status = "returned" => Tags(issued) = Expected_C1
        /\ Len(entry.update) <= 1
        /\ (Len(entry.update) = 1 /\ call.max_unorm > 0) =>
               /\ Len(entry.precond) = 1
               /\ entry.precond[1].unorm = 0
               /\ entry.update[1].unorm = blocks
        /\ call.max_unorm <= 0 =>
               /\ entry.precond = << >>
               /\ "unorm" \notin mem.touched

Witness_C1 ==
    /\ call.routine = "optimizer32bit"
    /\ call.OPTIMIZER = "RMSPROP"
    /\ call.max_unorm > 0
    /\ Complete
    /\ Len(entry.precond) = 1
    /\ Len(entry.update) = 1
    /\ entry.update[1].unorm = 2

----------------------------------------------------------------------------
\* the kinds optimizerStatic8bit is instantiated for
Kinds3 == {"ADAM", "MOMENTUM", "RMSPROP"}

NotUnorm(t) == t # << "memset", "unorm" >>

\* C2 as stated: optimizerStatic8bit, for ADAM, MOMENTUM and RMSPROP and every
\* max_unorm, zeroes new_max1 and new_max2, then runs the precondition pass, then
\* the update pass, each once, and both new_max1 and new_max2 are zero when the
\* precondition pass begins.
Orig_C2 ==
    (call.routine = "optimizerStatic8bit" /\ call.OPTIMIZER \in Kinds3) =>
        /\ status = "returned" =>
               SelectSeq(Tags(issued), NotUnorm)
                 = << << "memset", "new_max1" >>, << "memset", "new_max2" >>,
                      << "launch", "kPreconditionOptimizerStatic8bit"
                                      \o Family(call.OPTIMIZER) >>,
                      << "launch", "kOptimizerStatic8bit" \o Family(call.OPTIMIZER) >> >>
        /\ Len(entry.precond) >= 1 =>
               entry.precond[1].new_max1 = 0 /\ entry.precond[1].new_max2 = 0

\* what optimizerStatic8bit issues for a supported kind, in order
Expected_C2 ==
    (IF call.max_unorm > 0 THEN << << "memset", "unorm" >> >> ELSE << >>)
    \o << << "memset", "new_max1" >> >>
    \o (IF call.OPTIMIZER = "ADAM" THEN << << "memset", "new_max2" >> >> ELSE << >>)
    \o << << "launch", "kPreconditionOptimizerStatic8bit" \o Family(call.OPTIMIZER) >>,
          << "launch", "kOptimizerStatic8bit" \o Family(call.OPTIMIZER) >> >>

\* C2 as amended: the zeroing before the precondition pass is that of new_max1
\* and new_max2 for ADAM, and that of new_max1 alone for MOMENTUM and RMSPROP,
\* whose call never writes new_max2; the passes run once each, in this order, and
\* every accumulator the call zeroes is zero when the precondition pass begins.
Thm_C2 ==
    (call.routine = "optimizerStatic8bit" /\ call.OPTIMIZER \in Kinds3) =>
        /\ IsPrefix(Tags(issued), Expected_C2)
        /\ IsPrefix(Tags(executed), Tags(issued))
        /\ status = "returned" => Tags(issued) = Expected_C2
        /\ Len(entry.precond) <= 1 /\ Len(entry.update) <= 1
        /\ Len(entry.update) = 1 => Len(entry.precond) = 1
        /\ Len(entry.precond) = 1 =>
               /\ entry.precond[1].new_max1 = 0
               /\ call.OPTIMIZER = "ADAM" => entry.precond[1].new_max2 = 0
               /\ call.max_unorm > 0 => entry.precond[1].unorm = 0
        /\ call.OPTIMIZER # "ADAM" => "new_max2" \notin mem.touched

Witness_C2 ==
    /\ call.routine = "optimizerStatic8bit"
    /\ call.OPTIMIZER = "MOMENTUM"
    /\ Complete
    /\ Len(entry.update) = 1
    /\ entry.precond[1].new_max1 = 0
    /\ entry.precond[1].new_max2 = 10

----------------------------------------------------------------------------
\* C3: every device operation of a call is followed by its failure check before
\* the call issues another one; once an operation has reported failure the call
\* issues nothing more and never returns: the next thing it does is the check,
\* which prints the error and ends the process with status 1.
Thm_C3 ==
    /\ unchecked <= 1
    /\ failedAt # 0 =>
           /\ Len(issued) = failedAt
           /\ status \in {"running", "exited"}
           /\ status = "running" => (Running /\ Instr.k = "peek")
    /\ status = "exited" =>
           /\ failedAt # 0
           /\ exitCode = 1
           /\ Len(stderr) = 1
           /\ stderr[1] = << "Error", lastError >>
    /\ status = "returned" => (failedAt = 0 /\ unchecked = 0 /\ stderr = << >>)

Witness_C3 ==
    /\ call.routine = "optimizerStatic8bit"
    /\ call.OPTIMIZER = "ADAM"
    /\ call.n > 0
    /\ status = "exited"
    /\ exitCode = 1
    /\ failedAt = Len(issued)
    /\ issued[failedAt].name = "kPreconditionOptimizerStatic8bit2State"

----------------------------------------------------------------------------
\* elements per work-group, routine by routine
ClaimedE(c) ==
    CASE c.routine \in {"quantize", "dequantize"} -> 1024
      [] c.routine \in {"estimateQuantiles", "quantizeBlockwise", "optimizer32bit",
                        "optimizerStatic8bit"} -> 4096
      [] c.routine = "dequantizeBlockwise" -> c.blocksize
      [] c.routine \in {"optimizerStatic8bitBlockwise", "percentileClipping"} -> 2048

InClaim_C6 ==
    /\ call.routine # "histogramScatterAdd2D"
    /\ call.routine = "dequantizeBlockwise" => call.blocksize \in Supported
    /\ call.n > 0
    /\ PartDone

\* indices at the edges of the work-groups
EdgeIndices(n, E) ==
    {i \in {0, n - 1} \cup {g * E - 1 : g \in 1..(MaxGroups + 1)}
                      \cup {g * E : g \in 1..(MaxGroups + 1)} : i >= 0 /\ i < n}

\* C6: for n > 0 the number of work-groups is ceil(n / E) for the routine's E,
\* the threads of a launch times its elements per thread are E wherever both are
\* given, every launch uses that number of work-groups, and the work-groups
\* [g*E, (g+1)*E) for g < blocks cover 0..n-1 with none empty.
Thm_C6 ==
    InClaim_C6 =>
        LET E == ClaimedE(call) IN
        /\ blocks = (call.n + E - 1) \div E
        /\ (blocks - 1) * E < call.n
        /\ call.n <= blocks * E
        /\ \A i \in EdgeIndices(call.n, E) :
               Cardinality({g \in 0..(blocks - 1) : g * E <= i /\ i < (g + 1) * E}) = 1
        /\ \A j \in 1..Len(Program(call)) :
               Program(call)[j].k = "launch" =>
                   /\ Program(call)[j].arg = E
                   /\ Program(call)[j].per # 0 =>
                          Program(call)[j].threads * Program(call)[j].per = E
        /\ \A j \in 1..Len(issued) : issued[j].k = "launch" => issued[j].blocks = blocks

Witness_C6 ==
    /\ call.routine = "quantizeBlockwise"
    /\ call.n = 4097
    /\ blocks = 2
    /\ Len(executed) = 1

----------------------------------------------------------------------------
\* C7 as stated: dequantizeBlockwise with a blocksize outside {2048, 4096}, on a
\* nonempty input, launches nothing, writes nothing and returns normally.
Orig_C7 ==
    (call.routine = "dequantizeBlockwise" /\ call.blocksize \notin Supported
       /\ call.n > 0) =>
        /\ status \in {"running", "returned"}
        /\ issued = << >>
        /\ mem.touched = {}

----------------------------------------------------------------------------
Expected_C8 ==
    (IF call.max_unorm > 0 THEN << << "memset", "unorm" >> >> ELSE << >>)
    \o << << "memset", "new_max1" >>,
          << "launch", "kPreconditionOptimizerStatic8bit1State" >>,
          << "launch", "kOptimizerStatic8bit1State" >> >>

----------------------------------------------------------------------------
\* C9 as stated: a call with n = 0, the runtime injecting no failure of its own,
\* computes zero work-groups, runs no kernel and does not end in the fatal error.
Orig_C9 ==
    (call.n = 0 /\ ~envFault) =>
        /\ status # "exited"
        /\ \A j \in 1..Len(executed) : executed[j].k # "launch"

----------------------------------------------------------------------------
\* C10 as stated: whatever int step is, the slot percentileClipping zeroes and
\* accumulates into (on a nonempty g) is one of 0..99, so nothing outside
\* gnorm_vec is written.
Orig_C10 ==
    (call.routine = "percentileClipping" /\ call.n > 0) =>
        /\ \A j \in 1..Len(issued) :
               issued[j].name = "gnorm_vec" => issued[j].arg \in 0..(HistorySize - 1)
        /\ mem.oob = {}

----------------------------------------------------------------------------

\* the last step <= s that maps to slot k (negative when there is none)
LastStepOf(k, s) == s - ((s - k) % HistorySize)

\* slot k once the calls for steps 0..s are complete
SlotAfter(k, s) ==
    IF LastStepOf(k, s) >= 0
      THEN mem.gnorm_vec[k] = GNorm(LastStepOf(k, s), call.seed)
      ELSE /\ mem.gnorm_vec[k] = mem.gnorm_vec[HistorySize - 1]
           /\ mem.gnorm_vec[k] \in GarbageValues

\* C4: in the sequence of percentileClipping calls for step = 0, 1, 2, ... the
\* call for step s zeroes slot s % 100 and then adds the norm of that step to it,
\* and changes no other slot: once the call is complete every slot holds the norm
\* of the last step that mapped to it and nothing of the earlier ones, and a slot
\* no step has mapped to yet holds what it held at the start.  After step 199
\* slot k holds the norm of step 100 + k.
Thm_C4 ==
    (call.routine = "percentileClipping" /\ status \in {"running", "returned"}) =>
        LET s == call.step
            slot == s % HistorySize
        IN /\ Len(executed) = 0 =>
                  \A k \in 0..(HistorySize - 1) : SlotAfter(k, s - 1)
           /\ Len(executed) = 1 =>
                  /\ mem.gnorm_vec[slot] = 0
                  /\ \A k \in (0..(HistorySize - 1)) \ {slot} : SlotAfter(k, s - 1)
           /\ Len(executed) = 2 =>
                  \A k \in 0..(HistorySize - 1) : SlotAfter(k, s)
           /\ (Complete /\ s = 199) =>
                  \A k \in 0..(HistorySize - 1) :
                      mem.gnorm_vec[k] = GNorm(100 + k, call.seed)
           /\ mem.oob = {}

Witness_C4 ==
    /\ call.routine = "percentileClipping"
    /\ call.step = 199
    /\ Complete
    /\ Len(executed) = 2
    /\ mem.gnorm_vec[50] = GNorm(150, call.seed)

----------------------------------------------------------------------------
\* dequantizeBlockwise has run on what quantizeBlockwise produced
RoundTripDone ==
    /\ call.routine = "dequantizeBlockwise"
    /\ call.n > 0
    /\ Complete
    /\ Len(executed) = 1

RaggedBlock ==
    (call.routine = "quantizeBlockwise" /\ call.n = 4097 /\ Len(executed) = 1) =>
        /\ blocks = 2
        /\ mem.absmax[1] = Abs(A(4096, call.seed))

SameBlock ==
    \A i \in 0..(call.n - 1) :
        /\ DequantAbsmaxIndex(i, call.blocksize) = QuantAbsmaxIndex(i)
        /\ Abs(127 * A(i, call.seed) - mem.deq[i]) <= mem.absmax[QuantAbsmaxIndex(i)]

\* C5 as stated: for blocksize 2048 and 4096 and every n > 0, dequantizeBlockwise
\* on the out and absmax of quantizeBlockwise scales element i with the absmax
\* entry of the block quantizeBlockwise quantized it in, so that the result is
\* within absmax[block] / 127 of A; for n = 4097 quantizeBlockwise makes 2 blocks
\* and absmax[1] is the magnitude of the single element of block 1.
Orig_C5 == (RoundTripDone => SameBlock) /\ RaggedBlock

\* C5 as amended: for blocksize 4096, the block size quantizeBlockwise quantizes
\* with, and every n > 0, dequantizeBlockwise scales element i with the absmax
\* entry of the block it was quantized in and the result is within
\* absmax[block] / 127 of A; with blocksize 2048 only the elements below 2048 are
\* scaled with the entry of their own block; for n = 4097 quantizeBlockwise makes
\* 2 blocks and absmax[1] is the magnitude of the single element of block 1.
Thm_C5 ==
    /\ (RoundTripDone /\ call.blocksize = 4096) => SameBlock
    /\ (RoundTripDone /\ call.blocksize = 2048) =>
           \A i \in 0..(call.n - 1) :
               (DequantAbsmaxIndex(i, 2048) = QuantAbsmaxIndex(i)) = (i < 2048)
    /\ RaggedBlock

Witness_C5 ==
    /\ RoundTripDone
    /\ call.blocksize = 4096
    /\ call.n = 4097
    /\ mem.absmax[1] = Abs(A(4096, call.seed))
    /\ mem.deq[4096] = 127 * A(4096, call.seed)
    /\ mem.deq[4096] # 0

====
